---- MODULE Spec2Model ----
(***************************************************************************)
(* Model of wezterm-gui/src/termwindow/glow.rs: the GlowRenderer that      *)
(* records a four pass glow effect (extract, horizontal blur, vertical     *)
(* blur, additive composite) into a wgpu command encoder.                  *)
(*                                                                         *)
(* Floating point configuration values are modelled in tenths (3.0 is 30). *)
(* A usize pixel dimension is the pair [hi, lo] standing for               *)
(* hi * 2^32 + lo, so that the `as u32` cast of the source keeps lo and    *)
(* drops hi.  A pixel is one colour channel and one alpha channel, each    *)
(* in 0..MaxChan (MaxChan is 1.0 of a unorm format).  An offscreen texture *)
(* carries, instead of pixels, the set of render_glow calls whose passes   *)
(* its contents come from.  last and prev record what the most recent      *)
(* calls did, so that properties of a call can be read off a state.        *)
(* device.create_texture may fail; what it then does is an input of resize *)
(* (SpecAlloc), while Spec and SpecBlend run on a device that never fails. *)
(***************************************************************************)
EXTENDS Integers, Sequences, FiniteSets, TLC

VARIABLES
    r,          \* the GlowRenderer (struct fields, glow.rs 33-60)
    textures,   \* device textures created by create_offscreen_texture, by id
    main,       \* the caller's main color target: [format, pixel, before,
                \* loaded, written_by]; before is the pixel ahead of the last
                \* pass into it, loaded the pixel that pass started from
    encoder,    \* the frame's wgpu::CommandEncoder: [open, glow, cmds, valid]
    queue,      \* submitted commands the GPU has not executed yet
    calls,      \* number of resize and render_glow calls made so far
    cur_dims,   \* Dimensions passed to the most recent new or resize
    last,       \* record of the most recent call (what it did)
    prev        \* the call before it: [op, same_dims, textures_created]

vars == <<r, textures, main, encoder, queue, calls, cur_dims, last, prev>>

----------------------------------------------------------------------------
(* Bounds *)

MaxCalls == 3       \* resize + render_glow calls in one behaviour
MaxLo == 2          \* low 32 bits of a pixel dimension range over 1..MaxLo
MaxChan == 2        \* a channel value ranges over 0..MaxChan

MainTex == 0        \* id standing for the texture behind main_color_view

----------------------------------------------------------------------------
(* Inputs *)

\* wgpu::TextureFormat values the host can pass as the output format
Formats == {"Rgba8UnormSrgb", "Bgra8UnormSrgb"}

\* usize values of Dimensions.pixel_width / pixel_height: 1..MaxLo, and
\* 2^32 + 1, which does not fit u32
UsizeVals == {v \in [hi : {0, 1}, lo : 1..MaxLo] : v.hi = 1 => v.lo = 1}

DimensionsSet == [pixel_width : UsizeVals, pixel_height : UsizeVals]

\* Dimensions of a window one pixel high
SmallDimensionsSet ==
    {d \in DimensionsSet :
        d.pixel_width.hi = 0 /\ d.pixel_width.lo <= 2 /\ d.pixel_height = [hi |-> 0, lo |-> 1]}

\* config::ExperimentalGlow records (tenths)
AllGlowSet ==
    [enabled : BOOLEAN, radius : {0, 30}, threshold : {6},
     strength : {-8, 0, 8}, color_boost : {12}]

\* every enabled record, and the disabled one with positive strength and radius
ExperimentalGlowSet ==
    {c \in AllGlowSet : c.enabled \/ (c.strength = 8 /\ c.radius = 30)}

\* one enabled configuration and the three ways to disable it
SmallGlowSet ==
    {c \in ExperimentalGlowSet :
        \/ c.enabled /\ c.strength = 8
        \/ ~c.enabled /\ c.strength = 8 /\ c.radius = 30}

Pixels == [rgb : 0..MaxChan, a : 0..MaxChan]

\* what a fragment program may return for one channel: below, inside and
\* above the range of a unorm target
ShaderOut == {-1, 1, MaxChan + 1}

----------------------------------------------------------------------------
(* Conversions *)

\* `x as u32` for a usize x: the low 32 bits
AsU32(x) == x.lo

\* the conversion with threshold and color_boost exchanged
GlowUniformFrom_swapped(config) ==
    [radius      |-> config.radius,
     threshold   |-> config.color_boost,
     strength    |-> config.strength,
     color_boost |-> config.threshold]

\* impl From<&ExperimentalGlow> for GlowUniform
GlowUniformFrom(config) ==
    [radius      |-> config.radius,
     threshold   |-> config.threshold,
     strength    |-> config.strength,
     color_boost |-> config.color_boost]

----------------------------------------------------------------------------
(* Resource helpers *)

\* The texture created by create_offscreen_texture, with nothing drawn in it
\* yet: written_by is the set of calls whose passes its contents come from
\* (0: never written).
OffscreenTexture(width, height, label) ==
    [label |-> label, width |-> width, height |-> height,
     mip_level_count |-> 1, sample_count |-> 1, dimension |-> "D2",
     format |-> "Rgba8UnormSrgb",
     usage |-> {"RENDER_ATTACHMENT", "TEXTURE_BINDING"},
     allocated |-> TRUE,
     written_by |-> {0}]

\* What device.create_texture does with a descriptor.  It returns a
\* wgpu::Texture, not a Result: it allocates the texture ("ok"); or the
\* allocation fails, the device's uncaptured-error handler is run and, when
\* that handler returns, the caller is handed a texture that is not backed
\* by memory ("invalid"); or the handler panics ("panic").
AllocOutcomes == {"ok", "invalid", "panic"}

\* no texture was asked for
NoAlloc == [src |-> "none", tmp |-> "none"]

\* a device with memory to spare
AllocOk == {[src |-> "ok", tmp |-> "ok"]}

\* a device that may fail either allocation of a resize
AllocAny == [src : AllocOutcomes, tmp : AllocOutcomes]

\* create_offscreen_texture: unless create_texture panicked it returns
\* Ok((texture, view)), whatever became of the allocation; id is the fresh
\* device id of the texture, the view is a default view of it.
create_offscreen_texture(id, width, height, label, outcome) ==
    [ret |-> IF outcome = "panic" THEN "panic" ELSE "Ok",
     texture |-> id, view |-> [of |-> id],
     desc |-> [OffscreenTexture(width, height, label) EXCEPT
                   !.allocated = (outcome = "ok")]]

Additive ==
    [color |-> [src_factor |-> "One", dst_factor |-> "One", operation |-> "Add"],
     alpha |-> [src_factor |-> "One", dst_factor |-> "One", operation |-> "Add"]]

\* wgpu::BlendState::REPLACE
REPLACE ==
    [color |-> [src_factor |-> "One", dst_factor |-> "Zero", operation |-> "Add"],
     alpha |-> [src_factor |-> "One", dst_factor |-> "Zero", operation |-> "Add"]]

\* additive colour, alpha left at replace, for the composite pipeline
blend_state_color_only(fs_entry) ==
    IF fs_entry = "fs_composite"
    THEN [color |-> Additive.color, alpha |-> REPLACE.alpha]
    ELSE REPLACE

\* no additive branch: every pipeline replaces
blend_state_replace(fs_entry) ==
    REPLACE

\* the blend state create_pipeline picks from the fragment entry point
blend_state(fs_entry) ==
    IF fs_entry = "fs_composite" THEN Additive ELSE REPLACE

create_pipeline(vs_entry, fs_entry, uniform_layout, texture_layout, format, label) ==
    [label |-> label,
     layout |-> <<uniform_layout, texture_layout>>,
     vs_entry |-> vs_entry,
     fs_entry |-> fs_entry,
     format |-> format,
     blend |-> blend_state(fs_entry),
     write_mask |-> "ALL",
     topology |-> "TriangleList", front_face |-> "Ccw", cull_mode |-> "None",
     depth_stencil |-> "None", multisample_count |-> 1]

create_fullscreen_quad ==
    [vertex |-> [label |-> "Glow Quad Vertex Buffer", usage |-> "VERTEX", len |-> 4],
     index  |-> [label |-> "Glow Quad Index Buffer", usage |-> "INDEX", len |-> 6]]

linear_sampler ==
    [address_mode |-> "ClampToEdge", mag_filter |-> "Linear",
     min_filter |-> "Linear", mipmap_filter |-> "Linear"]

uniform_bind_group_layout ==
    [label |-> "Glow Uniform Bind Group Layout",
     entries |-> <<[binding |-> 0, visibility |-> "FRAGMENT", ty |-> "UniformBuffer"]>>]

texture_bind_group_layout ==
    [label |-> "Glow Texture Bind Group Layout",
     entries |-> <<[binding |-> 0, visibility |-> "FRAGMENT", ty |-> "Texture"],
                   [binding |-> 1, visibility |-> "FRAGMENT", ty |-> "Sampler"]>>]

----------------------------------------------------------------------------
(* GlowRenderer::new *)

\* The renderer new returns for an output format and Dimensions; the two
\* offscreen textures take the device ids id and id + 1.
New(surface_format, dimensions, id) ==
    LET width  == AsU32(dimensions.pixel_width)
        height == AsU32(dimensions.pixel_height)
        src == create_offscreen_texture(id, width, height, "Glow Source", "ok")
        tmp == create_offscreen_texture(id + 1, width, height, "Glow Temp", "ok")
        quad == create_fullscreen_quad
    IN  [glow_src_texture |-> src.texture,
         glow_src_view    |-> src.view,
         glow_tmp_texture |-> tmp.texture,
         glow_tmp_view    |-> tmp.view,
         extract_pipeline |->
             create_pipeline("vs_fullscreen", "fs_extract", uniform_bind_group_layout,
                             texture_bind_group_layout, surface_format,
                             "Glow Extract Pipeline"),
         blur_h_pipeline |->
             create_pipeline("vs_fullscreen", "fs_blur_h", uniform_bind_group_layout,
                             texture_bind_group_layout, surface_format,
                             "Glow Blur H Pipeline"),
         blur_v_pipeline |->
             create_pipeline("vs_fullscreen", "fs_blur_v", uniform_bind_group_layout,
                             texture_bind_group_layout, surface_format,
                             "Glow Blur V Pipeline"),
         composite_pipeline |->
             create_pipeline("vs_fullscreen", "fs_composite", uniform_bind_group_layout,
                             texture_bind_group_layout, surface_format,
                             "Glow Composite Pipeline"),
         uniform_bind_group_layout |-> uniform_bind_group_layout,
         texture_bind_group_layout |-> texture_bind_group_layout,
         linear_sampler     |-> linear_sampler,
         quad_vertex_buffer |-> quad.vertex,
         quad_index_buffer  |-> quad.index,
         width  |-> width,
         height |-> height]

\* the configuration recorded for a call that takes none
NoConfig ==
    [enabled |-> FALSE, radius |-> 0, threshold |-> 6, strength |-> 0, color_boost |-> 12]

\* what a call did: its arguments, its result, the device objects it created,
\* what became of the texture allocations it asked for, the commands it
\* recorded and the renderer it found
CallRecord(op, dims, config, ret, ntex, alloc, nbuf, nbg, recorded, pre) ==
    [op |-> op, dims |-> dims, config |-> config, ret |-> ret,
     textures_created |-> ntex, alloc |-> alloc, buffers_created |-> nbuf,
     bind_groups_created |-> nbg, recorded |-> recorded, pre |-> pre]

\* the device textures new creates, by id
NewTextures(dimensions, id) ==
    LET width  == AsU32(dimensions.pixel_width)
        height == AsU32(dimensions.pixel_height)
    IN  [t \in {id, id + 1} |->
            IF t = id
            THEN create_offscreen_texture(id, width, height, "Glow Source", "ok").desc
            ELSE create_offscreen_texture(id + 1, width, height, "Glow Temp", "ok").desc]

\* what is kept of a call once another call follows it; same_dims: the call
\* that follows passes (or runs at) the same Dimensions
Summary(c, dimensions) ==
    [op |-> c.op, same_dims |-> (c.dims = dimensions),
     textures_created |-> c.textures_created]

\* the writer of what the host itself drew
Host == [call |-> 0, label |-> "host"]

InitWith(dims) ==
    \E surface_format \in Formats, dimensions \in dims :
        LET n == New(surface_format, dimensions, 1)
        IN  /\ r = n
            /\ textures = NewTextures(dimensions, 1)
            /\ main = [format |-> surface_format,
                       pixel |-> [rgb |-> 0, a |-> MaxChan],
                       before |-> [rgb |-> 0, a |-> MaxChan],
                       loaded |-> [rgb |-> 0, a |-> MaxChan],
                       written_by |-> Host]
            /\ encoder = [open |-> FALSE, glow |-> FALSE, cmds |-> <<>>, valid |-> TRUE]
            /\ queue = <<>>
            /\ calls = 0
            /\ cur_dims = dimensions
            /\ last = CallRecord("new", dimensions, NoConfig, "Ok", 2,
                                [src |-> "ok", tmp |-> "ok"], 2, 0, <<>>, n)
            /\ prev = [op |-> "none", same_dims |-> FALSE, textures_created |-> 0]

----------------------------------------------------------------------------
(* GlowRenderer::resize *)

\* a resize that reallocates on every call
dimensions_changed_always(self, new_width, new_height) ==
    TRUE

\* the test that guards the reallocation
dimensions_changed(self, new_width, new_height) ==
    new_width # self.width \/ new_height # self.height

\* the six assignments that install the new surfaces
replace_surfaces(self, src, tmp, new_width, new_height) ==
    [self EXCEPT !.glow_src_texture = src.texture,
                 !.glow_src_view    = src.view,
                 !.glow_tmp_texture = tmp.texture,
                 !.glow_tmp_view    = tmp.view,
                 !.width  = new_width,
                 !.height = new_height]

\* texture ids that commands recorded or submitted, not yet executed, refer to
ViewsOf(cmd) ==
    IF cmd.op = "begin_render_pass" THEN {cmd.view.of}
    ELSE IF cmd.op = "set_bind_group" /\ cmd.index = 1 THEN {cmd.bind_group.texture_view.of}
    ELSE {}

Pending(cmds) == UNION {ViewsOf(cmds[i]) : i \in 1..Len(cmds)}

\* assigning a new wgpu::Texture to a field drops the old one; the device
\* keeps a dropped texture only while pending commands refer to it
DropUnused(texs, keep) ==
    [t \in {u \in DOMAIN texs : u \in keep} |-> texs[t]]

\* the id the device gives the next texture: one no live texture has
FreshId(used) ==
    CHOOSE i \in 1..(Cardinality(used) + 1) :
        i \notin used /\ \A j \in 1..(i - 1) : j \in used

\* A panic ends the host and, with it, the device: nothing runs after it.
Running == last.ret # "panic"

\* The host resizes between frames, never while it records one.
\* alloc is what the device does with the two create_texture calls, should
\* the resize make them.  Each `?` leaves resize with what the call it
\* follows ended with, before any field is assigned; a panic unwinds through
\* resize and drops the local textures.
Resize(dimensions, alloc) ==
    /\ Running
    /\ calls < MaxCalls
    /\ ~encoder.open
    /\ LET new_width  == AsU32(dimensions.pixel_width)
           new_height == AsU32(dimensions.pixel_height)
           src_id == FreshId(DOMAIN textures)
           tmp_id == FreshId(DOMAIN textures \cup {src_id})
           src == create_offscreen_texture(src_id, new_width, new_height, "Glow Source",
                                           alloc.src)
           tmp == create_offscreen_texture(tmp_id, new_width, new_height, "Glow Temp",
                                           alloc.tmp)
       IN  IF dimensions_changed(r, new_width, new_height)
           THEN IF src.ret # "Ok"
                THEN /\ UNCHANGED <<r, textures>>
                     /\ last' = CallRecord("resize", dimensions, NoConfig, src.ret, 0,
                                           [src |-> alloc.src, tmp |-> "none"],
                                           0, 0, <<>>, r)
                ELSE IF tmp.ret # "Ok"
                THEN /\ UNCHANGED <<r, textures>>
                     /\ last' = CallRecord("resize", dimensions, NoConfig, tmp.ret, 1,
                                           alloc, 0, 0, <<>>, r)
                ELSE /\ r' = replace_surfaces(r, src, tmp, new_width, new_height)
                     /\ textures' =
                          DropUnused((src.texture :> src.desc) @@ (tmp.texture :> tmp.desc)
                                         @@ textures,
                                     {r'.glow_src_texture, r'.glow_tmp_texture}
                                         \cup Pending(encoder.cmds \o queue))
                     /\ last' = CallRecord("resize", dimensions, NoConfig, "Ok", 2,
                                           alloc, 0, 0, <<>>, r)
           ELSE /\ UNCHANGED <<r, textures>>
                /\ last' = CallRecord("resize", dimensions, NoConfig, "Ok", 0,
                                      NoAlloc, 0, 0, <<>>, r)
    /\ calls' = calls + 1
    /\ cur_dims' = dimensions
    /\ prev' = Summary(last, dimensions)
    /\ UNCHANGED <<main, encoder, queue>>

----------------------------------------------------------------------------
(* GlowRenderer::render_glow *)

\* the early return with a strict comparison of strength
glow_disabled_strict(glow_config) ==
    ~glow_config.enabled \/ glow_config.strength < 0 \/ glow_config.radius <= 0

\* the early return
glow_disabled(glow_config) ==
    ~glow_config.enabled \/ glow_config.strength <= 0 \/ glow_config.radius <= 0

uniform_buffer(glow_config) ==
    [label |-> "Glow Uniform Buffer", contents |-> GlowUniformFrom(glow_config),
     usage |-> "UNIFORM"]

uniform_bind_group(self, glow_config) ==
    [label |-> "Glow Uniform Bind Group", layout |-> self.uniform_bind_group_layout,
     buffer |-> uniform_buffer(glow_config)]

texture_bind_group(self, label, view) ==
    [label |-> label, layout |-> self.texture_bind_group_layout,
     texture_view |-> view, sampler |-> self.linear_sampler]

\* One render pass block: begin_render_pass with one colour attachment, the
\* six calls on the pass, and the end of the pass when the block's
\* render_pass goes out of scope.  call tags the pass with the render_glow
\* call that recorded it.
render_pass(self, label, view, load, store, pipeline, ubg, tbg, call) ==
    << [op |-> "begin_render_pass", label |-> label, view |-> view,
        load |-> load, store |-> store, call |-> call],
       [op |-> "set_pipeline", pipeline |-> pipeline],
       [op |-> "set_bind_group", index |-> 0, bind_group |-> ubg],
       [op |-> "set_bind_group", index |-> 1, bind_group |-> tbg],
       [op |-> "set_vertex_buffer", slot |-> 0, buffer |-> self.quad_vertex_buffer],
       [op |-> "set_index_buffer", buffer |-> self.quad_index_buffer, format |-> "Uint16"],
       [op |-> "draw_indexed", indices |-> 6, instances |-> 1],
       [op |-> "end_render_pass", label |-> label] >>

\* the extract pass rendering into glow_tmp
extract_pass_into_tmp(self, main_color_view, ubg, call) ==
    render_pass(self, "Glow Extract Pass", self.glow_tmp_view, "Clear(BLACK)", "Store",
                self.extract_pipeline, ubg,
                texture_bind_group(self, "Main Texture Bind Group", main_color_view), call)

\* Step 1: extract bright areas from the main color buffer to glow_src
extract_pass(self, main_color_view, ubg, call) ==
    render_pass(self, "Glow Extract Pass", self.glow_src_view, "Clear(BLACK)", "Store",
                self.extract_pipeline, ubg,
                texture_bind_group(self, "Main Texture Bind Group", main_color_view), call)

\* Step 2: horizontal blur from glow_src to glow_tmp
blur_h_pass(self, main_color_view, ubg, call) ==
    render_pass(self, "Glow Blur H Pass", self.glow_tmp_view, "Clear(BLACK)", "Store",
                self.blur_h_pipeline, ubg,
                texture_bind_group(self, "Glow Src Bind Group", self.glow_src_view), call)

\* the vertical blur sampling the surface it renders into
blur_v_pass_aliased(self, main_color_view, ubg, call) ==
    render_pass(self, "Glow Blur V Pass", self.glow_src_view, "Clear(BLACK)", "Store",
                self.blur_v_pipeline, ubg,
                texture_bind_group(self, "Glow Tmp Bind Group", self.glow_src_view), call)

\* Step 3: vertical blur from glow_tmp back to glow_src
blur_v_pass(self, main_color_view, ubg, call) ==
    render_pass(self, "Glow Blur V Pass", self.glow_src_view, "Clear(BLACK)", "Store",
                self.blur_v_pipeline, ubg,
                texture_bind_group(self, "Glow Tmp Bind Group", self.glow_tmp_view), call)

\* the composite pass clearing the caller's target
composite_pass_clearing(self, main_color_view, ubg, call) ==
    render_pass(self, "Glow Composite Pass", main_color_view, "Clear(BLACK)", "Store",
                self.composite_pipeline, ubg,
                texture_bind_group(self, "Glow Final Bind Group", self.glow_src_view), call)

\* Step 4: composite the blurred glow additively onto the main color buffer
composite_pass(self, main_color_view, ubg, call) ==
    render_pass(self, "Glow Composite Pass", main_color_view, "Load", "Store",
                self.composite_pipeline, ubg,
                texture_bind_group(self, "Glow Final Bind Group", self.glow_src_view), call)

\* render_glow with the two blur passes recorded in the wrong order
render_glow_swapped(self, main_color_view, glow_config, call) ==
    IF glow_disabled(glow_config)
    THEN [ret |-> "Ok", recorded |-> <<>>, buffers_created |-> 0,
          bind_groups_created |-> 0]
    ELSE LET ubg == uniform_bind_group(self, glow_config)
         IN  [ret |-> "Ok",
              recorded |-> extract_pass(self, main_color_view, ubg, call)
                           \o blur_v_pass(self, main_color_view, ubg, call)
                           \o blur_h_pass(self, main_color_view, ubg, call)
                           \o composite_pass(self, main_color_view, ubg, call),
              buffers_created |-> 1,
              bind_groups_created |-> 1 + 4]

\* What one render_glow call does: its result, the commands it records into
\* the encoder, and the buffers and bind groups it has the device create (the
\* uniform buffer; the uniform bind group and one texture bind group a pass).
render_glow(self, main_color_view, glow_config, call) ==
    IF glow_disabled(glow_config)
    THEN [ret |-> "Ok", recorded |-> <<>>, buffers_created |-> 0,
          bind_groups_created |-> 0]
    ELSE LET ubg == uniform_bind_group(self, glow_config)
         IN  [ret |-> "Ok",
              recorded |-> extract_pass(self, main_color_view, ubg, call)
                           \o blur_h_pass(self, main_color_view, ubg, call)
                           \o blur_v_pass(self, main_color_view, ubg, call)
                           \o composite_pass(self, main_color_view, ubg, call),
              buffers_created |-> 1,
              bind_groups_created |-> 1 + 4]

\* format of the texture behind a view
FormatOf(t) == IF t = MainTex THEN main.format ELSE textures[t].format

\* the texture behind a view is backed by memory
Allocated(t) == t = MainTex \/ textures[t].allocated

\* wgpu validates a pass when it ends: the pipeline set in it must have been
\* built for the format of the pass's colour attachment, and the textures
\* the pass renders into and samples must be valid
CmdsValid(cmds) ==
    \A i \in 1..Len(cmds) :
        /\ cmds[i].op = "set_pipeline" =>
               \E j \in 1..i :
                   /\ cmds[j].op = "begin_render_pass"
                   /\ \A k \in (j + 1)..i : cmds[k].op # "begin_render_pass"
                   /\ cmds[i].pipeline.format = FormatOf(cmds[j].view.of)
        /\ \A t \in ViewsOf(cmds[i]) : Allocated(t)

\* The host calls render_glow once per frame, after its own scene pass.
RenderGlow(glow_config) ==
    /\ Running
    /\ calls < MaxCalls
    /\ encoder.open
    /\ ~encoder.glow
    /\ LET res == render_glow(r, [of |-> MainTex], glow_config, calls + 1)
       IN  /\ encoder' = [encoder EXCEPT !.glow = TRUE,
                                         !.cmds = @ \o res.recorded,
                                         !.valid = @ /\ CmdsValid(res.recorded)]
           /\ last' = CallRecord("render_glow", cur_dims, glow_config, res.ret, 0,
                                 NoAlloc, res.buffers_created, res.bind_groups_created,
                                 res.recorded, r)
    /\ calls' = calls + 1
    /\ prev' = Summary(last, cur_dims)
    /\ UNCHANGED <<r, textures, main, queue, cur_dims>>

----------------------------------------------------------------------------
(* The host renderer and the GPU *)

\* The host opens the frame's command encoder and records its own scene
\* pass, which leaves pixel in the main color target.
BeginFrame(pixel) ==
    /\ Running
    /\ ~encoder.open
    /\ queue = <<>>
    /\ encoder' = [open |-> TRUE, glow |-> FALSE,
                   cmds |-> <<[op |-> "host_scene", pixel |-> pixel]>>, valid |-> TRUE]
    /\ UNCHANGED <<r, textures, main, queue, calls, cur_dims, last, prev>>

\* The host finishes the encoder and submits it; an encoder that holds an
\* invalid pass yields no command buffer and nothing executes.
Submit ==
    /\ Running
    /\ encoder.open
    /\ queue = <<>>
    /\ queue' = IF encoder.valid THEN encoder.cmds ELSE <<>>
    /\ encoder' = [open |-> FALSE, glow |-> FALSE, cmds |-> <<>>, valid |-> TRUE]
    /\ UNCHANGED <<r, textures, main, calls, cur_dims, last, prev>>

\* wgpu::Color::BLACK
BLACK == [rgb |-> 0, a |-> MaxChan]

Min(a, b) == IF a < b THEN a ELSE b
Max(a, b) == IF a > b THEN a ELSE b

\* a unorm attachment clamps what the fragment program returns, and the
\* result of blending, to [0, 1]
ClampUnorm(v) == Max(0, Min(MaxChan, v))

Factor(f) == IF f = "One" THEN 1 ELSE 0

\* one wgpu::BlendComponent applied to a source and a destination channel
BlendComponent(c, src, dst) ==
    ClampUnorm(ClampUnorm(src) * Factor(c.src_factor) + dst * Factor(c.dst_factor))

Blend(blend, src, dst) ==
    [rgb |-> BlendComponent(blend.color, src.rgb, dst.rgb),
     a   |-> BlendComponent(blend.alpha, src.a, dst.a)]

\* length of the first pass of a command list
PassLen(cmds) ==
    CHOOSE i \in 1..Len(cmds) :
        /\ cmds[i].op = "end_render_pass"
        /\ \A j \in 1..(i - 1) : cmds[j].op # "end_render_pass"

PipelineOf(pass) ==
    pass[CHOOSE i \in 1..Len(pass) : pass[i].op = "set_pipeline"].pipeline

\* textures the pass's fragment program samples
SampledBy(pass) ==
    {pass[i].bind_group.texture_view.of :
        i \in {j \in 1..Len(pass) : pass[j].op = "set_bind_group" /\ pass[j].index = 1}}

\* The GPU executes the next submitted unit: the host's scene pass, or one
\* glow render pass from its begin to its end.  The fullscreen quad covers
\* every pixel; out is what the fragment program returns.
GpuExec(outs) ==
    /\ Running
    /\ queue # <<>>
    /\ IF Head(queue).op = "host_scene"
       THEN /\ main' = [main EXCEPT !.pixel = Head(queue).pixel,
                                     !.before = Head(queue).pixel,
                                     !.loaded = Head(queue).pixel,
                                     !.written_by = Host]
            /\ queue' = Tail(queue)
            /\ UNCHANGED textures
       ELSE LET n == PassLen(queue)
                pass == SubSeq(queue, 1, n)
                begin == pass[1]
                target == begin.view.of
                blend == PipelineOf(pass).blend
                keeps_dst == begin.load = "Load" /\ blend.color.dst_factor # "Zero"
            IN  /\ queue' = SubSeq(queue, n + 1, Len(queue))
                /\ IF target = MainTex
                   THEN /\ \E out \in outs :
                              LET loaded == IF begin.load = "Load" THEN main.pixel ELSE BLACK
                              IN  main' = [main EXCEPT
                                               !.pixel = Blend(blend, out, loaded),
                                               !.before = main.pixel,
                                               !.loaded = loaded,
                                               !.written_by = [call |-> begin.call,
                                                               label |-> begin.label]]
                        /\ UNCHANGED textures
                   ELSE /\ textures' =
                              [textures EXCEPT ![target].written_by =
                                  IF begin.store # "Store" THEN {0}
                                  ELSE {begin.call} \cup (IF keeps_dst THEN @ ELSE {})]
                        /\ UNCHANGED main
    /\ UNCHANGED <<r, encoder, calls, cur_dims, last, prev>>

----------------------------------------------------------------------------

\* One step of the host and the GPU, for the Dimensions and configurations
\* the host passes, the pixels its scene leaves and the values the fragment
\* programs return.
NextWith(dims, configs, scene, outs, allocs) ==
    \/ \E dimensions \in dims, alloc \in allocs : Resize(dimensions, alloc)
    \/ \E glow_config \in configs : RenderGlow(glow_config)
    \/ \E pixel \in scene : BeginFrame(pixel)
    \/ Submit
    \/ GpuExec(outs)

\* Every Dimensions value, one scene colour, one fragment result.
Init == InitWith(DimensionsSet)

Next ==
    NextWith(DimensionsSet, ExperimentalGlowSet, {BLACK}, {[rgb |-> 1, a |-> 1]}, AllocOk)

Spec == Init /\ [][Next]_vars

\* Dimensions that fit u32, every scene colour and every fragment result.
InitBlend == InitWith(SmallDimensionsSet)

NextBlend ==
    NextWith(SmallDimensionsSet, SmallGlowSet, Pixels, [rgb : ShaderOut, a : ShaderOut],
             AllocOk)

SpecBlend == InitBlend /\ [][NextBlend]_vars

\* Dimensions that fit u32, one scene colour and one fragment result, on a
\* device that may fail to allocate the textures a resize asks for.
InitAlloc == InitWith(SmallDimensionsSet)

NextAlloc ==
    NextWith(SmallDimensionsSet, SmallGlowSet, {BLACK}, {[rgb |-> 1, a |-> 1]}, AllocAny)

SpecAlloc == InitAlloc /\ [][NextAlloc]_vars

----------------------------------------------------------------------------
(* Properties of render_glow *)

\* a configuration with enabled = false, or strength <= 0, or radius <= 0
Guarded(c) == ~c.enabled \/ c.strength <= 0 \/ c.radius <= 0

LastRender == last.op = "render_glow"

\* commands recorded or submitted and not executed yet
PendingCmds == encoder.cmds \o queue

Begins(cmds) == SelectSeq(cmds, LAMBDA c : c.op = "begin_render_pass")

Brackets(cmds) ==
    SelectSeq(cmds, LAMBDA c : c.op \in {"begin_render_pass", "end_render_pass"})

\* a command list cut into its passes, each from a begin to the next end
RECURSIVE SplitPasses(_)
SplitPasses(cmds) ==
    IF cmds = <<>> \/ \A i \in 1..Len(cmds) : cmds[i].op # "end_render_pass"
    THEN <<>>
    ELSE LET n == PassLen(cmds)
         IN  <<SubSeq(cmds, 1, n)>> \o SplitPasses(SubSeq(cmds, n + 1, Len(cmds)))

PassOrder ==
    <<"Glow Extract Pass", "Glow Blur H Pass", "Glow Blur V Pass", "Glow Composite Pass">>

\* C1: a render_glow call whose configuration has enabled = false, or
\* strength <= 0, or radius <= 0 returns Ok and records nothing: it creates
\* no uniform buffer and no bind group, begins no render pass, and no pass of
\* that call is pending or has written src, tmp or the main color target.
C1_GuardNoSideEffects ==
    (LastRender /\ Guarded(last.config)) =>
        /\ last.ret = "Ok"
        /\ last.recorded = <<>>
        /\ last.buffers_created = 0
        /\ last.bind_groups_created = 0
        /\ last.textures_created = 0
        /\ \A i \in 1..Len(PendingCmds) :
               PendingCmds[i].op = "begin_render_pass" => PendingCmds[i].call # calls
        /\ \A t \in DOMAIN textures : calls \notin textures[t].written_by
        /\ main.written_by.call # calls

\* a guarded call with enabled = true and strength exactly 0, in a frame
\* that holds only the host's scene pass
C1_Witness ==
    /\ LastRender
    /\ last.config.enabled /\ last.config.strength = 0 /\ last.config.radius > 0
    /\ encoder.open /\ encoder.glow
    /\ Len(encoder.cmds) = 1

\* C2: a render_glow call with enabled = true, strength > 0 and radius > 0
\* records exactly four passes, in the order extract, horizontal blur,
\* vertical blur, composite, and every pass is ended before the next begins.
C2_FourPassesInOrder ==
    (LastRender /\ ~Guarded(last.config)) =>
        LET b == Brackets(last.recorded)
        IN  /\ [i \in 1..Len(Begins(last.recorded)) |-> Begins(last.recorded)[i].label]
                 = PassOrder
            /\ Len(b) = 2 * Len(PassOrder)
            /\ \A k \in 1..Len(PassOrder) :
                   /\ b[2 * k - 1].op = "begin_render_pass"
                   /\ b[2 * k].op = "end_render_pass"
                   /\ b[2 * k].label = b[2 * k - 1].label
            /\ last.recorded[1].op = "begin_render_pass"
            /\ last.recorded[Len(last.recorded)].op = "end_render_pass"
            /\ \A k \in 1..Len(SplitPasses(last.recorded)) :
                   \E i \in 1..Len(SplitPasses(last.recorded)[k]) :
                       SplitPasses(last.recorded)[k][i].op = "draw_indexed"

C2_Witness ==
    /\ LastRender
    /\ ~Guarded(last.config)
    /\ Len(Begins(last.recorded)) = 4
    /\ encoder.open
    /\ Len(encoder.cmds) = 1 + Len(last.recorded)

\* C3: in an enabled render_glow call the extract pass samples only the main
\* color target and writes only src; the horizontal blur samples only src
\* and writes only tmp; the vertical blur samples only tmp and writes only
\* src; the composite samples only src and writes only the main color
\* target; no pass samples the surface it renders into.
C3_PassIsolation ==
    (LastRender /\ ~Guarded(last.config)) =>
        LET p == SplitPasses(last.recorded)
            src == r.glow_src_texture
            tmp == r.glow_tmp_texture
            Reads(k) == SampledBy(p[k])
            Writes(k) == {p[k][i].view.of :
                            i \in {j \in 1..Len(p[k]) : p[k][j].op = "begin_render_pass"}}
        IN  /\ Len(p) = 4
            /\ Cardinality({src, tmp, MainTex}) = 3
            /\ Reads(1) = {MainTex} /\ Writes(1) = {src}
            /\ Reads(2) = {src}     /\ Writes(2) = {tmp}
            /\ Reads(3) = {tmp}     /\ Writes(3) = {src}
            /\ Reads(4) = {src}     /\ Writes(4) = {MainTex}
            /\ \A k \in 1..4 : Reads(k) \cap Writes(k) = {}

\* the GPU is about to run the vertical blur of the last call
C3_Witness ==
    /\ LastRender
    /\ ~Guarded(last.config)
    /\ queue # <<>>
    /\ Head(queue).op = "begin_render_pass"
    /\ Head(queue).label = "Glow Blur V Pass"
    /\ Head(queue).call = calls

\* C4: the main color target is written only by the composite pass and with
\* the Load policy; every pass that renders into src or tmp clears to black;
\* every pass stores its result.
C4_LoadStorePolicy ==
    /\ \A i \in 1..Len(PendingCmds) :
           LET c == PendingCmds[i]
           IN  c.op = "begin_render_pass" =>
                   /\ c.store = "Store"
                   /\ c.view.of = MainTex =>
                          (c.label = "Glow Composite Pass" /\ c.load = "Load")
                   /\ c.view.of # MainTex => c.load = "Clear(BLACK)"
    /\ \A i \in 1..Len(last.recorded) :
           LET c == last.recorded[i]
           IN  c.op = "begin_render_pass" =>
                   /\ c.store = "Store"
                   /\ c.view.of = MainTex =>
                          (c.label = "Glow Composite Pass" /\ c.load = "Load")
                   /\ c.view.of # MainTex => c.load = "Clear(BLACK)"
    /\ main.written_by.label \in {"host", "Glow Composite Pass"}
    /\ main.written_by.label = "Glow Composite Pass" => main.before = main.loaded

\* the composite pass of a second render_glow call has run
C4_Witness ==
    /\ main.written_by.label = "Glow Composite Pass"
    /\ main.written_by.call > 1
    /\ prev.op = "render_glow"

----------------------------------------------------------------------------
(* Properties of new and resize *)

LastResize == last.op = "resize"

\* the usize value of a u32
Usize(n) == [hi |-> 0, lo |-> n]

\* Dimensions equal to the width and height of a renderer
SameAs(dims, self) ==
    dims.pixel_width = Usize(self.width) /\ dims.pixel_height = Usize(self.height)

\* the last call left the renderer as it found it
Untouched == r = last.pre

\* a resize whose width and height both equal the current ones allocates
\* nothing and changes nothing
NoOpWhenSame ==
    (LastResize /\ SameAs(last.dims, last.pre)) =>
        (last.textures_created = 0 /\ Untouched)

\* C5 as stated: two resize calls in a row with the same dimensions perform
\* exactly one reallocation (of both surfaces) on the first call and none on
\* the second, which leaves src, tmp, width and height as the first left
\* them; a resize to the current width and height is a no-op.
C5_Original ==
    /\ (LastResize /\ prev.op = "resize" /\ prev.same_dims) =>
           /\ prev.textures_created = 2
           /\ last.textures_created = 0
           /\ Untouched
    /\ NoOpWhenSame

\* C5 (amended): two resize calls in a row with the same dimensions perform
\* at most one reallocation on the first call and none on the second, which
\* allocates no texture and leaves src, tmp, width and height as the first
\* left them; a resize to the current width and height is a no-op.
C5_ResizeIdempotent ==
    /\ (LastResize /\ prev.op = "resize" /\ prev.same_dims) =>
           /\ prev.textures_created \in {0, 2}
           /\ last.textures_created = 0
           /\ Untouched
    /\ NoOpWhenSame

\* the first of two equal resize calls reallocated, the second did not
C5_Witness ==
    /\ LastResize /\ prev.op = "resize" /\ prev.same_dims
    /\ prev.textures_created = 2
    /\ last.textures_created = 0
    /\ SameAs(last.dims, r)

\* C6 as stated: the recorded width and height, and the size of the src and
\* of the tmp texture, equal the pixel width and height passed to the most
\* recent new or resize, for every Dimensions value; src and tmp have the
\* same size.
C6_Original ==
    LET src == textures[r.glow_src_texture]
        tmp == textures[r.glow_tmp_texture]
    IN  /\ SameAs(cur_dims, r)
        /\ cur_dims.pixel_width = Usize(src.width)
        /\ cur_dims.pixel_height = Usize(src.height)
        /\ src.width = tmp.width /\ src.height = tmp.height

\* C7 as stated: a resize whose dimensions differ from the current ones in
\* width or in height replaces both surfaces (texture and view) and updates
\* width and height, and leaves the pipelines, the bind group layouts, the
\* sampler and the quad buffers as they were.
C7_Original ==
    (LastResize /\ ~SameAs(last.dims, last.pre)) =>
        /\ r.glow_src_texture # last.pre.glow_src_texture
        /\ r.glow_src_view # last.pre.glow_src_view
        /\ r.glow_tmp_texture # last.pre.glow_tmp_texture
        /\ r.glow_tmp_view # last.pre.glow_tmp_view
        /\ r.glow_src_view.of = r.glow_src_texture
        /\ r.glow_tmp_view.of = r.glow_tmp_texture
        /\ SameAs(last.dims, r)
        /\ <<r.width, r.height>> # <<last.pre.width, last.pre.height>>
        /\ last.textures_created = 2
        /\ r.extract_pipeline = last.pre.extract_pipeline
        /\ r.blur_h_pipeline = last.pre.blur_h_pipeline
        /\ r.blur_v_pipeline = last.pre.blur_v_pipeline
        /\ r.composite_pipeline = last.pre.composite_pipeline
        /\ r.uniform_bind_group_layout = last.pre.uniform_bind_group_layout
        /\ r.texture_bind_group_layout = last.pre.texture_bind_group_layout
        /\ r.linear_sampler = last.pre.linear_sampler
        /\ r.quad_vertex_buffer = last.pre.quad_vertex_buffer
        /\ r.quad_index_buffer = last.pre.quad_index_buffer

\* C8: whenever the GPU is about to run a pass that samples src or tmp, what
\* that surface holds was cleared and drawn by an earlier pass of the same
\* render_glow call, and by nothing else.
C8_NoStaleSample ==
    (queue # <<>> /\ Head(queue).op = "begin_render_pass") =>
        LET pass == SubSeq(queue, 1, PassLen(queue))
        IN  \A t \in SampledBy(pass) :
                t # MainTex => textures[t].written_by = {Head(queue).call}

\* the horizontal blur of the first enabled render after a resize that
\* replaced the surfaces is about to sample src
C8_Witness ==
    /\ queue # <<>>
    /\ Head(queue).op = "begin_render_pass"
    /\ Head(queue).label = "Glow Blur H Pass"
    /\ Head(queue).call = 3
    /\ r.glow_src_texture \in SampledBy(SubSeq(queue, 1, PassLen(queue)))
    /\ textures[r.glow_src_texture].written_by = {3}
    /\ prev.op = "resize" /\ prev.textures_created = 2

----------------------------------------------------------------------------
(* Properties of the pipelines and of the composite *)

AddOneOne == [src_factor |-> "One", dst_factor |-> "One", operation |-> "Add"]

AddOneZero == [src_factor |-> "One", dst_factor |-> "Zero", operation |-> "Add"]

\* C9: of the four pipelines new builds, the composite pipeline and only it
\* blends additively (source One, destination One, Add) for colour and for
\* alpha; the extract and the two blur pipelines replace.
C9_CompositeBlendOnly ==
    /\ r.composite_pipeline.fs_entry = "fs_composite"
    /\ r.composite_pipeline.blend = [color |-> AddOneOne, alpha |-> AddOneOne]
    /\ \A p \in {r.extract_pipeline, r.blur_h_pipeline, r.blur_v_pipeline} :
           /\ p.fs_entry # "fs_composite"
           /\ p.blend = [color |-> AddOneZero, alpha |-> AddOneZero]
    /\ Cardinality({r.extract_pipeline.fs_entry, r.blur_h_pipeline.fs_entry,
                    r.blur_v_pipeline.fs_entry, r.composite_pipeline.fs_entry}) = 4

\* the composite pipeline is the one set in a composite pass about to run
C9_Witness ==
    /\ queue # <<>>
    /\ Head(queue).op = "begin_render_pass"
    /\ Head(queue).label = "Glow Composite Pass"
    /\ PipelineOf(SubSeq(queue, 1, PassLen(queue))) = r.composite_pipeline
    /\ r.composite_pipeline.blend.alpha.dst_factor = "One"

\* C10: once a pass of render_glow has written the main color target, each
\* channel of the target is at least what it was before that pass.
C10_NeverDarkens ==
    main.written_by.call > 0 =>
        /\ main.pixel.rgb >= main.before.rgb
        /\ main.pixel.a >= main.before.a

\* the composite pass of an enabled call has brightened a mid-gray,
\* half-transparent pixel of the main color target
C10_Witness ==
    /\ main.written_by.label = "Glow Composite Pass"
    /\ main.before = [rgb |-> 1, a |-> 1]
    /\ main.pixel.rgb > main.before.rgb
    /\ main.pixel.a > main.before.a

----------------------------------------------------------------------------
(* Properties of the uniform parameters *)

\* contents of the uniform buffers bound at group 0 by a command list
UniformsOf(cmds) ==
    {cmds[i].bind_group.buffer.contents :
        i \in {j \in 1..Len(cmds) : cmds[j].op = "set_bind_group" /\ cmds[j].index = 0}}

\* u holds the four numeric fields of c, each under its own name
CarriesFieldsOf(u, c) ==
    /\ DOMAIN u = {"radius", "threshold", "strength", "color_boost"}
    /\ u.radius = c.radius
    /\ u.threshold = c.threshold
    /\ u.strength = c.strength
    /\ u.color_boost = c.color_boost

\* C11: converting any configuration record to GlowUniform gives radius,
\* threshold, strength and color_boost each equal to the configuration field
\* of the same name, whatever the enabled flag is; and every uniform buffer
\* bound by the passes of an enabled render_glow call holds exactly the
\* conversion of the configuration passed to that call.
C11_UniformIdentity ==
    /\ \A c \in AllGlowSet : CarriesFieldsOf(GlowUniformFrom(c), c)
    /\ \A c \in AllGlowSet :
           GlowUniformFrom([c EXCEPT !.enabled = ~c.enabled]) = GlowUniformFrom(c)
    /\ (LastRender /\ ~Guarded(last.config)) =>
           /\ last.buffers_created = 1
           /\ UniformsOf(last.recorded) # {}
           /\ \A u \in UniformsOf(last.recorded) : CarriesFieldsOf(u, last.config)

\* an enabled call has bound its uniform buffer in each of its four passes
C11_Witness ==
    /\ LastRender
    /\ last.config.enabled /\ last.config.strength = 8 /\ last.config.radius = 30
    /\ Len(SelectSeq(last.recorded,
                      LAMBDA c : c.op = "set_bind_group" /\ c.index = 0)) = 4
    /\ \E u \in UniformsOf(last.recorded) :
           u.threshold = 6 /\ u.color_boost = 12 /\ u.threshold # u.color_boost

----------------------------------------------------------------------------
(* Properties of a resize whose allocation fails *)

\* the most recent call is a resize during which the device failed to
\* allocate one of the two new textures
AllocFailed ==
    /\ LastResize
    /\ \/ last.alloc.src \in {"invalid", "panic"}
       \/ last.alloc.tmp \in {"invalid", "panic"}

\* src, tmp, width and height are those the call found
SurfacesKept ==
    /\ r.glow_src_texture = last.pre.glow_src_texture
    /\ r.glow_src_view = last.pre.glow_src_view
    /\ r.glow_tmp_texture = last.pre.glow_tmp_texture
    /\ r.glow_tmp_view = last.pre.glow_tmp_view
    /\ r.width = last.pre.width
    /\ r.height = last.pre.height

\* C12: when the allocation of either new offscreen surface fails during
\* resize, resize returns the error and the renderer is unchanged: src, tmp,
\* width and height are those from before the call, and the old surfaces are
\* replaced only once both new ones exist.
C12_Original ==
    AllocFailed =>
        /\ last.ret = "Err"
        /\ SurfacesKept
        /\ \A t \in {r.glow_src_texture, r.glow_tmp_texture} : textures[t].allocated

----------------------------------------------------------------------------
(* Properties of the pipeline target formats *)

\* the pipeline bound in the pass was built for the format of the texture
\* the pass renders into
TargetFormatMatches(pass) ==
    PipelineOf(pass).format = FormatOf(pass[1].view.of)

\* C13: whatever output format was passed to new, in every pass recorded by
\* render_glow the colour-target format of the bound pipeline equals the
\* format of the texture the pass renders into: the extract and the two blur
\* pipelines match the fixed format of src and tmp, the composite pipeline
\* matches the format of the main color target.
C13_Original ==
    LastRender =>
        LET passes == SplitPasses(last.recorded)
        IN  \A i \in 1..Len(passes) : TargetFormatMatches(passes[i])

====
